---- MODULE Spec2Model ----
(***************************************************************************)
(* LIS3MDL magnetometer driver (src/src/lib.rs) over a blocking I2C bus.   *)
(*                                                                         *)
(* The driver owns a bus and a resolved device address.  Every handler is  *)
(* a function of the handle's address, its arguments and what the bus      *)
(* answers to each transaction; its observable behaviour is the sequence   *)
(* of bus transactions it issues and the value it returns.  The bus is the *)
(* environment: each transaction either fails with some error value or     *)
(* succeeds, a read filling the buffer with arbitrary bytes.               *)
(***************************************************************************)
EXTENDS Integers, Sequences, FiniteSets

VARIABLES
    this,      \* <<>> when no handle exists, else <<[address |-> a]>>
    i2c,       \* the bus transactions issued by the call in `call`, in order
    call,      \* the driver call that has just run ("none" between calls)
    result     \* what that call returned

vars == <<this, i2c, call, result>>

----------------------------------------------------------------------------
(* Bounds *)

\* number of distinct error values the bus can report (the opaque type E)
NumBusErrors == 2

----------------------------------------------------------------------------
(* Constants of lib.rs *)

LIS3MDL_SA1_HIGH_ADDRESS == \b0011110
LIS3MDL_SA1_LOW_ADDRESS == \b0011100
LIS3MDL_WHO_ID == \h3D

(* Register table (mod registers, declared at lib.rs:1; values of the     *)
(* LIS3MDL register map).  The driver only needs them to be distinct.     *)
WHO_AM_I == \h0F
CTRL_REG1 == \h20
CTRL_REG2 == \h21
CTRL_REG3 == \h22
CTRL_REG4 == \h23
STATUS_REG == \h27
OUT_X_L == \h28

Registers == {WHO_AM_I, CTRL_REG1, CTRL_REG2, CTRL_REG3, CTRL_REG4, STATUS_REG, OUT_X_L}

----------------------------------------------------------------------------
(* u8 and i16 arithmetic *)

Byte == 0..255

RECURSIVE BitAnd(_, _)
\* a & b on non-negative integers
BitAnd(a, b) ==
    IF a = 0 \/ b = 0 THEN 0
    ELSE (a % 2) * (b % 2) + 2 * BitAnd(a \div 2, b \div 2)

RECURSIVE BitOr(_, _)
\* a | b on non-negative integers
BitOr(a, b) ==
    IF a = 0 THEN b
    ELSE IF b = 0 THEN a
    ELSE (IF a % 2 = 1 \/ b % 2 = 1 THEN 1 ELSE 0) + 2 * BitOr(a \div 2, b \div 2)

\* x << n on u8: the bits shifted out of the byte are dropped
Shl8(x, n) == (x * 2^n) % 256

\* the i16 with the two's-complement bit pattern u, and back
ToI16(u) == IF u >= 32768 THEN u - 65536 ELSE u
ToU16(x) == IF x < 0 THEN x + 65536 ELSE x

\* x << n on i16: the bits shifted out of the 16 are dropped
Shl16(x, n) == ToI16((ToU16(x) * 2^n) % 65536)

\* x | y on i16
Or16(x, y) == ToI16(BitOr(ToU16(x), ToU16(y)))

----------------------------------------------------------------------------
(* Configuration enumerations and their bit codes *)

OperatingMode == {"ContinuousConversion", "SingleConversion", "PowerDown"}

OperatingMode_to_bitcode(mode) ==
    CASE mode = "ContinuousConversion" -> 0
      [] mode = "SingleConversion" -> 1
      [] mode = "PowerDown" -> 2

FullScale == {"Four", "Eight", "Twelve", "Sixteen"}

FullScale_to_bitcode(scale) ==
    CASE scale = "Four" -> 0
      [] scale = "Eight" -> 1
      [] scale = "Twelve" -> 2
      [] scale = "Sixteen" -> 3

AxisMode == {"LowPower", "MediumPerformance", "HighPerformance", "UltraPerformance"}

AxisMode_to_bitcode(mode) ==
    CASE mode = "LowPower" -> 0
      [] mode = "MediumPerformance" -> 1
      [] mode = "HighPerformance" -> 2
      [] mode = "UltraPerformance" -> 3

OutputDataRate ==
    {"Fast", "MilliHz625", "MilliHz1250", "MilliHz2500", "Hz5", "Hz10", "Hz20", "Hz40", "Hz80"}

OutputDataRate_to_bitcode(odr) ==
    CASE odr = "Fast" -> 1
      [] odr = "MilliHz625" -> 0
      [] odr = "MilliHz1250" -> \b10
      [] odr = "MilliHz2500" -> \b100
      [] odr = "Hz5" -> \b110
      [] odr = "Hz10" -> \b1000
      [] odr = "Hz20" -> \b1010
      [] odr = "Hz40" -> \b1100
      [] odr = "Hz80" -> \b1110

----------------------------------------------------------------------------
(* The bus: what a transaction can answer, and the record of a transaction *)

BusErrors == 1..NumBusErrors

\* a transaction that failed with error e / that succeeded reading `data`
ErrReply(e) == [ok |-> FALSE, err |-> <<e>>, data |-> <<>>]
OkReply(data) == [ok |-> TRUE, err |-> <<>>, data |-> data]

ErrReplies == {ErrReply(e) : e \in BusErrors}

\* answers to i2c.write
WriteReplies == {OkReply(<<>>)} \cup ErrReplies

\* answers to i2c.write_read with a one-byte buffer
ByteReplies == {OkReply(<<b>>) : b \in Byte} \cup ErrReplies

\* i2c.write(address, bytes)
I2cWrite(address, bytes, reply) ==
    [kind |-> "write", address |-> address, bytes |-> bytes, len |-> 0, reply |-> reply]

\* i2c.write_read(address, bytes, buffer) with a buffer of len bytes
I2cWriteRead(address, bytes, len, reply) ==
    [kind |-> "write_read", address |-> address, bytes |-> bytes, len |-> len, reply |-> reply]

----------------------------------------------------------------------------
(* Return values.  val is a sequence of integers: empty for () and None.   *)

Ok(v) == [tag |-> "Ok", val |-> v]
OkNone == [tag |-> "OkNone", val |-> <<>>]
OkSome(v) == [tag |-> "OkSome", val |-> v]
Err(e) == [tag |-> "Err", val |-> e]

\* A handler's run: the transactions it issued and what it returned.
Ran(txns, res) == [txns |-> txns, res |-> res]

----------------------------------------------------------------------------
(* Register access primitives *)

set_register(address, reg, value, reply) ==
    Ran(<<I2cWrite(address, <<reg, value>>, reply)>>,
        IF reply.ok THEN Ok(<<>>) ELSE Err(reply.err))

read_register(address, reg, reply) ==
    LET resp == IF reply.ok THEN reply.data ELSE <<0>>
    IN  Ran(<<I2cWriteRead(address, <<reg>>, 1, reply)>>,
            IF reply.ok THEN Ok(<<resp[1]>>) ELSE Err(reply.err))

----------------------------------------------------------------------------
(* Discovery *)

\* faulty variant: the answer is compared with the buffer's initial value
test_lism3mdl_addr_wrong_id(address, reply) ==
    LET resp == IF reply.ok THEN reply.data ELSE <<LIS3MDL_WHO_ID + 1>>
    IN  Ran(<<I2cWriteRead(address, <<WHO_AM_I>>, 1, reply)>>,
            IF reply.ok THEN [tag |-> "Ok", val |-> (resp[1] = LIS3MDL_WHO_ID + 1)]
            ELSE Err(reply.err))

\* Ok(bool) is returned as tag "Ok" with val the boolean itself
test_lism3mdl_addr(address, reply) ==
    LET resp == IF reply.ok THEN reply.data ELSE <<LIS3MDL_WHO_ID + 1>>
    IN  Ran(<<I2cWriteRead(address, <<WHO_AM_I>>, 1, reply)>>,
            IF reply.ok THEN [tag |-> "Ok", val |-> (resp[1] = LIS3MDL_WHO_ID)]
            ELSE Err(reply.err))

\* faulty variant: the low address is probed first
new_low_first(rh, rl) ==
    LET l == test_lism3mdl_addr(LIS3MDL_SA1_LOW_ADDRESS, rl)
        h == test_lism3mdl_addr(LIS3MDL_SA1_HIGH_ADDRESS, rh)
    IN  IF l.res.tag = "Err" THEN l
        ELSE IF l.res.val THEN Ran(l.txns, OkSome(<<LIS3MDL_SA1_LOW_ADDRESS>>))
        ELSE IF h.res.tag = "Err" THEN Ran(l.txns \o h.txns, h.res)
        ELSE IF h.res.val THEN Ran(l.txns \o h.txns, OkSome(<<LIS3MDL_SA1_HIGH_ADDRESS>>))
        ELSE Ran(l.txns \o h.txns, OkNone)

\* faulty variant: a failed probe counts as "no device here" and the next one is tried
new_fallthrough(rh, rl) ==
    LET h == test_lism3mdl_addr(LIS3MDL_SA1_HIGH_ADDRESS, rh)
        l == test_lism3mdl_addr(LIS3MDL_SA1_LOW_ADDRESS, rl)
    IN  IF h.res.tag = "Ok" /\ h.res.val
        THEN Ran(h.txns, OkSome(<<LIS3MDL_SA1_HIGH_ADDRESS>>))
        ELSE IF l.res.tag = "Ok" /\ l.res.val
        THEN Ran(h.txns \o l.txns, OkSome(<<LIS3MDL_SA1_LOW_ADDRESS>>))
        ELSE Ran(h.txns \o l.txns, OkNone)

\* rh, rl: what the bus answers to the probe of the high and of the low address
new(rh, rl) ==
    LET h == test_lism3mdl_addr(LIS3MDL_SA1_HIGH_ADDRESS, rh)
        l == test_lism3mdl_addr(LIS3MDL_SA1_LOW_ADDRESS, rl)
    IN  IF h.res.tag = "Err" THEN h
        ELSE IF h.res.val THEN Ran(h.txns, OkSome(<<LIS3MDL_SA1_HIGH_ADDRESS>>))
        ELSE IF l.res.tag = "Err" THEN Ran(h.txns \o l.txns, l.res)
        ELSE IF l.res.val THEN Ran(h.txns \o l.txns, OkSome(<<LIS3MDL_SA1_LOW_ADDRESS>>))
        ELSE Ran(h.txns \o l.txns, OkNone)

----------------------------------------------------------------------------
(* Configuration setters.  wr, rd: the bus's answer to the write, the read *)

set_operating_mode(address, mode, wr) ==
    set_register(address, CTRL_REG3, OperatingMode_to_bitcode(mode), wr)

\* faulty variant: the mode is written to the full-scale register
power_down_wrong_register(address, wr) ==
    set_register(address, CTRL_REG2, OperatingMode_to_bitcode("PowerDown"), wr)

power_down(address, wr) ==
    set_operating_mode(address, "PowerDown", wr)

set_full_scale(address, scale, wr) ==
    set_register(address, CTRL_REG2, FullScale_to_bitcode(scale), wr)

\* faulty variant: the data-rate code is not shifted past bit 0
set_xy_mode_and_data_rate_unshifted(address, mode, odr, wr) ==
    set_register(address, CTRL_REG1,
                 BitOr(Shl8(AxisMode_to_bitcode(mode), 5), OutputDataRate_to_bitcode(odr)),
                 wr)

set_xy_mode_and_data_rate(address, mode, odr, wr) ==
    set_register(address, CTRL_REG1,
                 BitOr(Shl8(AxisMode_to_bitcode(mode), 5),
                       Shl8(OutputDataRate_to_bitcode(odr), 1)),
                 wr)

set_xy_mode(address, mode, rd, wr) ==
    LET r == read_register(address, CTRL_REG1, rd)
    IN  IF r.res.tag = "Err" THEN r
        ELSE LET cur == r.res.val[1]
                 w == set_register(address, CTRL_REG1,
                          BitAnd(cur, BitAnd(\b10011111, Shl8(AxisMode_to_bitcode(mode), 5))),
                          wr)
             IN  Ran(r.txns \o w.txns, w.res)

set_z_mode(address, mode, wr) ==
    set_register(address, CTRL_REG4, Shl8(AxisMode_to_bitcode(mode), 2), wr)

set_data_rate(address, odr, rd, wr) ==
    LET r == read_register(address, CTRL_REG1, rd)
    IN  IF r.res.tag = "Err" THEN r
        ELSE LET cur == r.res.val[1]
                 w == set_register(address, CTRL_REG1,
                          BitAnd(cur, BitAnd(\b11100001, Shl8(OutputDataRate_to_bitcode(odr), 1))),
                          wr)
             IN  Ran(r.txns \o w.txns, w.res)

\* faulty variant: the operating mode is set before the Z mode
init_default_reordered(address, w1, w2, w3) ==
    LET a == set_xy_mode_and_data_rate(address, "HighPerformance", "Hz10", w1)
        b == set_operating_mode(address, "ContinuousConversion", w2)
        c == set_z_mode(address, "HighPerformance", w3)
    IN  IF a.res.tag = "Err" THEN a
        ELSE IF b.res.tag = "Err" THEN Ran(a.txns \o b.txns, b.res)
        ELSE Ran(a.txns \o b.txns \o c.txns, c.res)

\* w1, w2, w3: the bus's answers to the first, second and third write
init_default(address, w1, w2, w3) ==
    LET a == set_xy_mode_and_data_rate(address, "HighPerformance", "Hz10", w1)
        b == set_z_mode(address, "HighPerformance", w2)
        c == set_operating_mode(address, "ContinuousConversion", w3)
    IN  IF a.res.tag = "Err" THEN a
        ELSE IF b.res.tag = "Err" THEN Ran(a.txns \o b.txns, b.res)
        ELSE Ran(a.txns \o b.txns \o c.txns, c.res)

----------------------------------------------------------------------------
(* Measurement read *)

\* faulty variant: the high byte is taken first (big-endian)
incremental_read_measurements_big_endian(address, start_reg, reply) ==
    LET values == IF reply.ok THEN reply.data ELSE <<0, 0, 0, 0, 0, 0>>
    IN  Ran(<<I2cWriteRead(address, <<start_reg>>, 6, reply)>>,
            IF reply.ok
            THEN Ok(<<Or16(Shl16(values[1], 8), values[2]),
                      Or16(Shl16(values[3], 8), values[4]),
                      Or16(Shl16(values[5], 8), values[6])>>)
            ELSE Err(reply.err))

\* values[k] of the source (0-based) is values[k + 1] here
incremental_read_measurements(address, start_reg, reply) ==
    LET values == IF reply.ok THEN reply.data ELSE <<0, 0, 0, 0, 0, 0>>
    IN  Ran(<<I2cWriteRead(address, <<start_reg>>, 6, reply)>>,
            IF reply.ok
            THEN Ok(<<Or16(Shl16(values[2], 8), values[1]),
                      Or16(Shl16(values[4], 8), values[3]),
                      Or16(Shl16(values[6], 8), values[5])>>)
            ELSE Err(reply.err))

\* faulty variant: the data-ready flag is taken from bit 1
read_bit1(address, rs, rb) ==
    LET s == read_register(address, STATUS_REG, rs)
    IN  IF s.res.tag = "Err" THEN s
        ELSE IF BitAnd(s.res.val[1], \b10) # \b10 THEN Ran(s.txns, OkNone)
        ELSE LET m == incremental_read_measurements(address, OUT_X_L, rb)
             IN  Ran(s.txns \o m.txns,
                     IF m.res.tag = "Err" THEN m.res ELSE OkSome(m.res.val))

\* rs, rb: the bus's answers to the status read and to the burst read
read(address, rs, rb) ==
    LET s == read_register(address, STATUS_REG, rs)
    IN  IF s.res.tag = "Err" THEN s
        ELSE IF BitAnd(s.res.val[1], \b1000) # \b1000 THEN Ran(s.txns, OkNone)
        ELSE LET m == incremental_read_measurements(address, OUT_X_L, rb)
             IN  Ran(s.txns \o m.txns,
                     IF m.res.tag = "Err" THEN m.res ELSE OkSome(m.res.val))

----------------------------------------------------------------------------
(* Burst answers the model draws from *)

\* the bytes at the edges of the u8 and i8 ranges
EdgeBytes == {0, 1, 127, 128, 255}

\* (low, high) byte pairs of one axis: every byte value occurs in each place
AxisPairs == (Byte \X EdgeBytes) \cup (EdgeBytes \X Byte)

ExampleBurst == <<1, 0, 255, 255, 0, 128>>

\* the example with the two bytes of axis k (1 = X, 2 = Y, 3 = Z) replaced
WithAxis(k, p) ==
    [i \in 1..6 |-> IF i = 2 * k - 1 THEN p[1]
                    ELSE IF i = 2 * k THEN p[2]
                    ELSE ExampleBurst[i]]

Bursts == {WithAxis(k, p) : k \in 1..3, p \in AxisPairs}

BurstReplies == {OkReply(b) : b \in Bursts} \cup ErrReplies

\* a few bursts, tried with every status byte
FewBurstReplies == {OkReply(ExampleBurst), OkReply(<<0, 0, 0, 0, 0, 0>>)} \cup ErrReplies

\* status bytes with the data-ready bit set, tried with every burst
ReadyStatusReplies == {OkReply(<<\b1000>>), OkReply(<<\hFF>>)}

----------------------------------------------------------------------------
(* State machine *)

NoCall == [op |-> "none", mode |-> "-", odr |-> "-", reg |-> 0, value |-> 0]
Called(op) == [NoCall EXCEPT !.op = op]

Idle == call.op = "none"

\* the handle exists and no call is being observed
Ready == Idle /\ this # <<>>

Init ==
    /\ this = <<>>
    /\ i2c = <<>>
    /\ call = NoCall
    /\ result = Ok(<<>>)

\* the handler ran on the handle: its transactions and return value are recorded
Handled(c, r) ==
    /\ call' = c
    /\ i2c' = r.txns
    /\ result' = r.res
    /\ UNCHANGED this

New ==
    /\ Idle
    /\ \E rh \in ByteReplies, rl \in ByteReplies :
         LET r == new(rh, rl)
         IN  /\ call' = Called("new")
             /\ i2c' = r.txns
             /\ result' = r.res
             /\ this' = IF r.res.tag = "OkSome"
                        THEN <<[address |-> r.res.val[1]]>>
                        ELSE <<>>

InitDefault ==
    /\ Ready
    /\ \E w1 \in WriteReplies, w2 \in WriteReplies, w3 \in WriteReplies :
         Handled(Called("init_default"), init_default(this[1].address, w1, w2, w3))

SetOperatingMode ==
    /\ Ready
    /\ \E mode \in OperatingMode, wr \in WriteReplies :
         Handled([Called("set_operating_mode") EXCEPT !.mode = mode],
                 set_operating_mode(this[1].address, mode, wr))

PowerDown ==
    /\ Ready
    /\ \E wr \in WriteReplies :
         Handled(Called("power_down"), power_down(this[1].address, wr))

SetFullScale ==
    /\ Ready
    /\ \E scale \in FullScale, wr \in WriteReplies :
         Handled([Called("set_full_scale") EXCEPT !.mode = scale],
                 set_full_scale(this[1].address, scale, wr))

SetXyModeAndDataRate ==
    /\ Ready
    /\ \E mode \in AxisMode, odr \in OutputDataRate, wr \in WriteReplies :
         Handled([Called("set_xy_mode_and_data_rate") EXCEPT !.mode = mode, !.odr = odr],
                 set_xy_mode_and_data_rate(this[1].address, mode, odr, wr))

SetXyMode ==
    /\ Ready
    /\ \E mode \in AxisMode, rd \in ByteReplies, wr \in WriteReplies :
         Handled([Called("set_xy_mode") EXCEPT !.mode = mode],
                 set_xy_mode(this[1].address, mode, rd, wr))

SetZMode ==
    /\ Ready
    /\ \E mode \in AxisMode, wr \in WriteReplies :
         Handled([Called("set_z_mode") EXCEPT !.mode = mode],
                 set_z_mode(this[1].address, mode, wr))

SetDataRate ==
    /\ Ready
    /\ \E odr \in OutputDataRate, rd \in ByteReplies, wr \in WriteReplies :
         Handled([Called("set_data_rate") EXCEPT !.odr = odr],
                 set_data_rate(this[1].address, odr, rd, wr))

SetRegister ==
    /\ Ready
    /\ \E reg \in Registers, value \in Byte, wr \in WriteReplies :
         Handled([Called("set_register") EXCEPT !.reg = reg, !.value = value],
                 set_register(this[1].address, reg, value, wr))

ReadRegister ==
    /\ Ready
    /\ \E reg \in Registers, rd \in ByteReplies :
         Handled([Called("read_register") EXCEPT !.reg = reg],
                 read_register(this[1].address, reg, rd))

\* read() with every status answer
ReadAnyStatus ==
    /\ Ready
    /\ \E rs \in ByteReplies, rb \in FewBurstReplies :
         Handled(Called("read"), read(this[1].address, rs, rb))

\* read() with every burst answer
ReadAnyBurst ==
    /\ Ready
    /\ \E rs \in ReadyStatusReplies, rb \in BurstReplies :
         Handled(Called("read"), read(this[1].address, rs, rb))

\* the caller takes the returned value; the next call starts with an empty log
Return ==
    /\ ~Idle
    /\ call' = NoCall
    /\ i2c' = <<>>
    /\ result' = Ok(<<>>)
    /\ UNCHANGED this

Next ==
    \/ New
    \/ InitDefault
    \/ SetOperatingMode
    \/ PowerDown
    \/ SetFullScale
    \/ SetXyModeAndDataRate
    \/ SetXyMode
    \/ SetZMode
    \/ SetDataRate
    \/ SetRegister
    \/ ReadRegister
    \/ ReadAnyStatus
    \/ ReadAnyBurst
    \/ Return

Spec == Init /\ [][Next]_vars

----------------------------------------------------------------------------
(* Properties *)

\* bit i of byte b
Bit(b, i) == (b \div 2^i) % 2

\* the signed 16-bit value of the unsigned 16-bit number u
Signed16(u) == IF u >= 32768 THEN u - 65536 ELSE u

\* transaction t is a one-byte read of register reg at address a
IsRegisterRead(t, a, reg) ==
    t.kind = "write_read" /\ t.address = a /\ t.bytes = <<reg>> /\ t.len = 1

\* transaction t is the identity probe of address a
IsProbe(t, a) == IsRegisterRead(t, a, WHO_AM_I)

\* the probe t was answered, with the identity byte 0x3D
Matched(t) == t.reply.ok /\ t.reply.data = <<\h3D>>

AllOk == \A i \in 1..Len(i2c) : i2c[i].reply.ok

\* C1: new probes the high address 0b0011110 first and the low address
\* 0b0011100 only after it; a high probe answering 0x3D binds the handle to
\* high with no low probe; a high probe answering another byte followed by a
\* low probe answering 0x3D gives Ok(Some(handle)) bound to low.
C1_HighFirstThenLow ==
    call.op = "new" =>
        /\ Len(i2c) \in 1..2
        /\ IsProbe(i2c[1], \b0011110)
        /\ \A i \in 1..Len(i2c) : i2c[i].address = \b0011100 => i = 2
        /\ Len(i2c) = 2 => IsProbe(i2c[2], \b0011100)
        /\ Matched(i2c[1]) =>
              /\ Len(i2c) = 1
              /\ result = OkSome(<<\b0011110>>)
              /\ this = <<[address |-> \b0011110]>>
        /\ (i2c[1].reply.ok /\ ~Matched(i2c[1])) =>
              /\ Len(i2c) = 2
              /\ Matched(i2c[2]) =>
                    /\ result = OkSome(<<\b0011100>>)
                    /\ this = <<[address |-> \b0011100]>>

\* a device answering 0x3D at the low address only was found there
C1_Witness ==
    /\ call.op = "new"
    /\ Len(i2c) = 2
    /\ i2c[1].reply.ok /\ ~Matched(i2c[1])
    /\ Matched(i2c[2])
    /\ result = OkSome(<<\b0011100>>)

\* C2: when both probes of new complete without a bus error and neither
\* answers 0x3D, new returns Ok(None) and creates no handle; new returns Err
\* only when one of its probe transactions failed.
C2_AbsentIsNotAnError ==
    call.op = "new" =>
        /\ (AllOk /\ \A i \in 1..Len(i2c) : ~Matched(i2c[i])) =>
              /\ Len(i2c) = 2
              /\ result = OkNone
              /\ this = <<>>
        /\ result.tag = "Err" => ~AllOk

\* both addresses answered, neither with 0x3D, and new returned Ok(None)
C2_Witness ==
    /\ call.op = "new"
    /\ Len(i2c) = 2
    /\ AllOk
    /\ ~Matched(i2c[1]) /\ ~Matched(i2c[2])
    /\ result = OkNone

\* C3: a bus failure of the high probe makes new return that error at once:
\* no low probe follows and no handle exists; a bus failure of the low probe
\* is returned as that error too, never as Ok(None).
C3_ProbeFailurePropagates ==
    call.op = "new" =>
        /\ ~i2c[1].reply.ok =>
              /\ Len(i2c) = 1
              /\ result = Err(i2c[1].reply.err)
              /\ this = <<>>
        /\ (Len(i2c) = 2 /\ ~i2c[2].reply.ok) =>
              /\ result = Err(i2c[2].reply.err)
              /\ this = <<>>

\* the high probe failed with error 2 and new returned it
C3_Witness ==
    /\ call.op = "new"
    /\ ~i2c[1].reply.ok
    /\ result = Err(<<2>>)

\* C4: set_xy_mode(m) without bus failure reads CTRL_REG1 and writes back
\* the byte read with bits 5 and 6 replaced by the code of m and every
\* other bit kept.
C4_XyModeKeepsOtherBits ==
    (call.op = "set_xy_mode" /\ AllOk) =>
        /\ Len(i2c) = 2
        /\ IsRegisterRead(i2c[1], this[1].address, CTRL_REG1)
        /\ i2c[2].kind = "write"
        /\ i2c[2].address = this[1].address
        /\ LET cur == i2c[1].reply.data[1]
               kept == cur - 32 * ((cur \div 32) % 4)
           IN  i2c[2].bytes = <<CTRL_REG1, kept + 32 * AxisMode_to_bitcode(call.mode)>>

\* set_xy_mode(HighPerformance) read 0x10 (10 Hz) and wrote 0x00
C4_Witness ==
    /\ call.op = "set_xy_mode"
    /\ call.mode = "HighPerformance"
    /\ Len(i2c) = 2
    /\ i2c[1].reply.data = <<\h10>>
    /\ i2c[2].bytes = <<CTRL_REG1, 0>>

\* C5: set_data_rate(r) without bus failure reads CTRL_REG1 and writes back
\* the byte read with bits 1 to 4 replaced by the code of r and every other
\* bit kept.
C5_DataRateKeepsOtherBits ==
    (call.op = "set_data_rate" /\ AllOk) =>
        /\ Len(i2c) = 2
        /\ IsRegisterRead(i2c[1], this[1].address, CTRL_REG1)
        /\ i2c[2].kind = "write"
        /\ i2c[2].address = this[1].address
        /\ LET cur == i2c[1].reply.data[1]
               kept == cur - 2 * ((cur \div 2) % 16)
           IN  i2c[2].bytes = <<CTRL_REG1, kept + 2 * OutputDataRate_to_bitcode(call.odr)>>

\* set_data_rate(Hz10) read 0x40 (XY high performance) and wrote 0x00
C5_Witness ==
    /\ call.op = "set_data_rate"
    /\ call.odr = "Hz10"
    /\ Len(i2c) = 2
    /\ i2c[1].reply.data = <<\h40>>
    /\ i2c[2].bytes = <<CTRL_REG1, 0>>

\* What set_xy_mode and set_data_rate do write: the mask and the shifted code
\* have no bit in common, so the byte written is 0 whatever was read.
ReadModifyWriteWritesZero ==
    (call.op \in {"set_xy_mode", "set_data_rate"} /\ Len(i2c) = 2) =>
        i2c[2].bytes = <<CTRL_REG1, 0>>

\* C6: when read's status read succeeds with bit 3 clear, whatever the
\* other bits, read returns Ok(None) and that status read is the only
\* transaction of the call.
C6_NotReadyReadsNothing ==
    call.op = "read" =>
        /\ Len(i2c) >= 1
        /\ IsRegisterRead(i2c[1], this[1].address, STATUS_REG)
        /\ (i2c[1].reply.ok /\ Bit(i2c[1].reply.data[1], 3) = 0) =>
              /\ result = OkNone
              /\ Len(i2c) = 1

\* the status byte had every bit but bit 3 set, and read returned Ok(None)
C6_Witness ==
    /\ call.op = "read"
    /\ i2c[1].reply.data = <<\b11110111>>
    /\ result = OkNone

\* C7: when the status byte has bit 3 set, read reads six bytes b0..b5 at
\* OUT_X_L and returns the signed 16-bit values of b1*256+b0, b3*256+b2,
\* b5*256+b4; the bytes 01 00 FF FF 00 80 give (1, -1, -32768).
C7_LittleEndianSigned ==
    (call.op = "read" /\ i2c[1].reply.ok /\ Bit(i2c[1].reply.data[1], 3) = 1) =>
        /\ Len(i2c) = 2
        /\ i2c[2].kind = "write_read"
        /\ i2c[2].address = this[1].address
        /\ i2c[2].bytes = <<OUT_X_L>>
        /\ i2c[2].len = 6
        /\ i2c[2].reply.ok =>
              LET b == i2c[2].reply.data
              IN  /\ result = OkSome(<<Signed16(b[2] * 256 + b[1]),
                                       Signed16(b[4] * 256 + b[3]),
                                       Signed16(b[6] * 256 + b[5])>>)
                  /\ b = <<1, 0, 255, 255, 0, 128>> => result.val = <<1, -1, -32768>>

\* the burst 01 00 FF FF 00 80 was decoded to (1, -1, -32768)
C7_Witness ==
    /\ call.op = "read"
    /\ Len(i2c) = 2
    /\ i2c[2].reply.ok
    /\ i2c[2].reply.data = <<1, 0, 255, 255, 0, 128>>
    /\ result = OkSome(<<1, -1, -32768>>)

\* C8: set_xy_mode_and_data_rate(m, r) issues one write, of CTRL_REG1, and
\* no read; the byte has the code of m in bits 5-6 and the code of r in
\* bits 1-4, which identify m and r, and bits 0 and 7 zero; for
\* (HighPerformance, Hz10) it is 0x40 | 0x10.
C8_CombinedOverwrite ==
    call.op = "set_xy_mode_and_data_rate" =>
        /\ Len(i2c) = 1
        /\ i2c[1].kind = "write"
        /\ i2c[1].address = this[1].address
        /\ Len(i2c[1].bytes) = 2
        /\ i2c[1].bytes[1] = CTRL_REG1
        /\ LET v == i2c[1].bytes[2]
           IN  /\ v = 32 * AxisMode_to_bitcode(call.mode)
                        + 2 * OutputDataRate_to_bitcode(call.odr)
               /\ \A m \in AxisMode :
                     AxisMode_to_bitcode(m) = (v \div 32) % 4 <=> m = call.mode
               /\ \A r \in OutputDataRate :
                     OutputDataRate_to_bitcode(r) = (v \div 2) % 16 <=> r = call.odr
               /\ Bit(v, 0) = 0
               /\ Bit(v, 7) = 0
               /\ v \in Byte
               /\ (call.mode = "HighPerformance" /\ call.odr = "Hz10") => v = 64 + 16

\* (HighPerformance, Hz10) was written as 0x50
C8_Witness ==
    /\ call.op = "set_xy_mode_and_data_rate"
    /\ call.mode = "HighPerformance"
    /\ call.odr = "Hz10"
    /\ i2c[1].bytes = <<CTRL_REG1, \h50>>
    /\ result = Ok(<<>>)

\* C9: power_down issues exactly one transaction, the write of
\* [CTRL_REG3, 2] to the handle's address, as set_operating_mode(PowerDown)
\* does; it reads nothing and writes no other register.
C9_PowerDownWritesCtrl3Only ==
    call.op = "power_down" =>
        /\ Len(i2c) = 1
        /\ i2c[1].kind = "write"
        /\ i2c[1].address = this[1].address
        /\ i2c[1].bytes = <<CTRL_REG3, 2>>
        /\ LET same == set_operating_mode(this[1].address, "PowerDown", i2c[1].reply)
           IN  i2c = same.txns /\ result = same.res
        /\ \A i \in 1..Len(i2c) :
              i2c[i].kind = "write" => i2c[i].bytes[1] \notin Registers \ {CTRL_REG3}

\* a handle bound to the low address powered the device down
C9_Witness ==
    /\ call.op = "power_down"
    /\ this = <<[address |-> \b0011100]>>
    /\ i2c[1].address = \b0011100
    /\ result = Ok(<<>>)

\* C10: init_default writes CTRL_REG1 (XY HighPerformance, 10 Hz), then
\* CTRL_REG4 (Z HighPerformance in bits 2-3), then CTRL_REG3
\* (ContinuousConversion), and nothing else; a write that fails ends the
\* sequence and its error is returned.
C10_InitDefaultSequence ==
    call.op = "init_default" =>
        LET expected == << <<CTRL_REG1, 64 + 16>>, <<CTRL_REG4, 8>>, <<CTRL_REG3, 0>> >>
            n == Len(i2c)
        IN  /\ n \in 1..3
            /\ \A i \in 1..n :
                  /\ i2c[i].kind = "write"
                  /\ i2c[i].address = this[1].address
                  /\ i2c[i].bytes = expected[i]
            /\ \A i \in 1..(n - 1) : i2c[i].reply.ok
            /\ IF i2c[n].reply.ok
               THEN n = 3 /\ result = Ok(<<>>)
               ELSE result = Err(i2c[n].reply.err)

\* the second write failed, so the third was not issued
C10_Witness ==
    /\ call.op = "init_default"
    /\ Len(i2c) = 2
    /\ ~i2c[2].reply.ok
    /\ result.tag = "Err"

====
